---- MODULE Spec2Model ----
(***************************************************************************)
(* Model of the useAudio hook (src/src/audio/useAudio.ts): the microphone  *)
(* capture pipeline with its start()/stop() lifecycle, the session counter *)
(* that guards asynchronous continuations, and the host objects it drives  *)
(* (media streams, audio contexts, source nodes, animation frames).        *)
(***************************************************************************)
EXTENDS Integers, Sequences, FiniteSets, TLC

\* ------------------------------------------------------------------ bounds
MaxCalls   == 2     \* start() invocations explored
MaxSession == 3     \* cap on sessionRef.current
MaxHandles == 2     \* requestAnimationFrame callbacks fired by the host

\* --------------------------------------------------------- program constants
DEFAULT_FFT_SIZE == 2048

Calls == 1..MaxCalls
\* The ids requestAnimationFrame can hand out: one per start() and per tick.
Handles == 1..(MaxCalls + MaxHandles)
\* null in a ref; null in the error state.
NULL  == 0
NoError == "(null)"

\* Transform sizes a caller-supplied AnalyserNode may be configured with.
UserFftSizes == {32, 4096}
\* What the analyser may deliver on one frame, as <<frequency byte, waveform
\* byte>>: silence (no magnitude, waveform centred at 128) or a loud signal.
Frames == {<<0, 128>>, <<255, 255>>}
\* The frame of a step that writes no buffer.
NoFrame == <<0, 0>>

\* Audio contexts and analyser nodes: none, the caller's, or the one created
\* by start() call c.  A caller's analyser is identified by its fftSize n.
NoCtx       == [kind |-> "null", id |-> 0]
UserCtx(n)  == [kind |-> "user", id |-> n]
OwnCtx(c)   == [kind |-> "own",  id |-> c]
NoNode      == [kind |-> "null", id |-> 0]
UserNode(n) == [kind |-> "user", id |-> n]
OwnNode(c)  == [kind |-> "own",  id |-> c]
\* The analyserNode option of a render: NoNode when the caller supplies none.
AnalyserOptions == {NoNode} \cup {UserNode(n) : n \in UserFftSizes}

\* Every fftSize an AnalyserNode accepts: the powers of two from 32 to 32768.
ValidFftSizes == {2^k : k \in 5..15}
SizedOptions == {NoNode} \cup {UserNode(n) : n \in ValidFftSizes}

\* The outcomes of new AudioContext() and of createMediaStreamSource().
HostOutcomes == {"ok", "throws"}

\* Values that reach the catch block of start().
NotAllowedError   == [isError |-> TRUE,  name |-> "NotAllowedError",   message |-> "Permission denied"]
NotFoundError     == [isError |-> TRUE,  name |-> "NotFoundError",     message |-> "Requested device not found"]
NotReadableError  == [isError |-> TRUE,  name |-> "NotReadableError",  message |-> "Could not start audio source"]
NonErrorRejection == [isError |-> FALSE, name |-> "",                  message |-> ""]
InvalidStateError == [isError |-> TRUE,  name |-> "InvalidStateError", message |-> "The operation is not allowed"]
NullTypeError     == [isError |-> TRUE,  name |-> "TypeError",         message |-> "Cannot read properties of null"]
GumErrors == {NotAllowedError, NotFoundError, NotReadableError, NonErrorRejection}

VARIABLES
  \* React state
  isActive, error,
  \* refs of the hook
  frequencyData, timeDomainData,
  audioContextRef, analyserRef, sourceRef, streamRef, animationFrameRef,
  userProvidedAnalyserRef, mountedRef, sessionRef,
  \* host objects
  streamState,      \* per stream (one per start() call): "none" | "live" | "ended"
  sourceState,      \* per MediaStreamAudioSourceNode: "none" | "connected" | "disconnected"
  closedContexts,   \* audio contexts on which close() has been called
  scheduled,        \* animation-frame callbacks the host still holds
  nextHandle,       \* next id requestAnimationFrame returns
  \* the start() invocations
  pc,               \* "idle" | "gum" | "resume" | "done"
  currentSession,   \* the const currentSession of each invocation
  \* history
  lastOp,           \* the operation that made the last step: <<name, call, result>>
  lastUnmountSession,\* sessionRef right after the latest unmount (0: never)
  retryOfDenied,    \* the start() calls made while ErrorState held a permission denial
  calledMounted     \* the start() calls made while the component was mounted

hookVars == <<isActive, error, frequencyData, timeDomainData, audioContextRef,
              analyserRef, sourceRef, streamRef, animationFrameRef,
              userProvidedAnalyserRef, mountedRef, sessionRef>>
hostVars == <<streamState, sourceState, closedContexts, scheduled, nextHandle>>
callVars == <<pc, currentSession>>
histVars == <<lastUnmountSession, retryOfDenied, calledMounted>>
vars == <<hookVars, hostVars, callVars, lastOp, histVars>>

\* The hook's refs and state with the host objects they point at, as one value
\* the operations transform.
S ==
  [ isActive |-> isActive, error |-> error,
    frequencyData |-> frequencyData, timeDomainData |-> timeDomainData,
    audioContextRef |-> audioContextRef, analyserRef |-> analyserRef,
    sourceRef |-> sourceRef, streamRef |-> streamRef,
    animationFrameRef |-> animationFrameRef,
    userProvidedAnalyserRef |-> userProvidedAnalyserRef,
    mountedRef |-> mountedRef, sessionRef |-> sessionRef,
    streamState |-> streamState, sourceState |-> sourceState,
    closedContexts |-> closedContexts, scheduled |-> scheduled,
    nextHandle |-> nextHandle ]

Commit(s) ==
  /\ isActive' = s.isActive
  /\ error' = s.error
  /\ frequencyData' = s.frequencyData
  /\ timeDomainData' = s.timeDomainData
  /\ audioContextRef' = s.audioContextRef
  /\ analyserRef' = s.analyserRef
  /\ sourceRef' = s.sourceRef
  /\ streamRef' = s.streamRef
  /\ animationFrameRef' = s.animationFrameRef
  /\ userProvidedAnalyserRef' = s.userProvidedAnalyserRef
  /\ mountedRef' = s.mountedRef
  /\ sessionRef' = s.sessionRef
  /\ streamState' = s.streamState
  /\ sourceState' = s.sourceState
  /\ closedContexts' = s.closedContexts
  /\ scheduled' = s.scheduled
  /\ nextHandle' = s.nextHandle

\* new Uint8Array(n): a fresh zero-filled array, identified by the call that
\* allocated it (0: the arrays made at construction).
NewBuffer(owner, n) == [id |-> owner, len |-> n, data |-> 0]

fftSize(node) == IF node.kind = "user" THEN node.id ELSE DEFAULT_FFT_SIZE

\* Variant: the frequency buffer gets one slot per sample.
frequencyBinCount_full(node) == fftSize(node)

frequencyBinCount(node) == fftSize(node) \div 2

\* ------------------------------------------------------------------ stop()
\* Variant: stop() leaves the session counter alone.
stopSession_noIncrement(s) == s

\* sessionRef.current++
stopSession(s) == [s EXCEPT !.sessionRef = @ + 1]

\* Variant: the ref is cleared without cancelling the frame.
stopFrame_noCancel(s) == [s EXCEPT !.animationFrameRef = NULL]

\* if (animationFrameRef.current) { cancelAnimationFrame(..); ref = null }
stopFrame(s) ==
  IF s.animationFrameRef # NULL
  THEN [s EXCEPT !.scheduled = {cb \in @ : cb.handle # s.animationFrameRef},
                 !.animationFrameRef = NULL]
  ELSE s

\* Variant: the ref is cleared without stopping the tracks.
stopStream_keepTracks(s) == [s EXCEPT !.streamRef = NULL]

\* if (streamRef.current) { getTracks().forEach(stop); ref = null }
stopStream(s) ==
  IF s.streamRef # NULL
  THEN [s EXCEPT !.streamState[s.streamRef] = "ended", !.streamRef = NULL]
  ELSE s

\* if (sourceRef.current) { disconnect(); ref = null }
stopSource(s) ==
  IF s.sourceRef # NULL
  THEN [s EXCEPT !.sourceState[s.sourceRef] = "disconnected", !.sourceRef = NULL]
  ELSE s

\* if (!userProvidedAnalyserRef.current) { close context; clear both refs }
stopContext(s) ==
  IF ~s.userProvidedAnalyserRef
  THEN LET t == IF s.audioContextRef # NoCtx
                THEN [s EXCEPT !.closedContexts = @ \cup {s.audioContextRef},
                               !.audioContextRef = NoCtx]
                ELSE s
       IN [t EXCEPT !.analyserRef = NoNode]
  ELSE s

\* if (mountedRef.current) setIsActive(false)
stopActive(s) == IF s.mountedRef THEN [s EXCEPT !.isActive = FALSE] ELSE s

\* Variant: the cleanup steps chained with else, so that a call which releases
\* a stream leaves the source and the context for the next call.
stop_elseChain(s) ==
  LET s1 == stopFrame(stopSession(s))
  IN IF s1.streamRef # NULL THEN stopActive(stopStream(s1))
     ELSE stopActive(stopContext(stopSource(s1)))

stop(s) == stopActive(stopContext(stopSource(stopStream(stopFrame(stopSession(s))))))

\* The release calls stop() makes on host objects, none inside a try block.
ReleaseFaults == {"track", "disconnect", "close"}

\* stop() reaches the release call named by fault.
stopRaises(s, fault) ==
  CASE fault = "track"      -> s.streamRef # NULL
    [] fault = "disconnect" -> s.sourceRef # NULL
    [] fault = "close"      -> ~s.userProvidedAnalyserRef /\ s.audioContextRef # NoCtx

\* stop() when that release call throws: the statements before it have run,
\* the assignment after it and the rest of the function have not.
stopAborted(s, fault) ==
  LET s1 == stopFrame(stopSession(s))
  IN CASE fault = "track"      -> s1
       [] fault = "disconnect" -> stopStream(s1)
       [] fault = "close"      -> stopSource(stopStream(s1))

\* ----------------------------------------------------------------- start()
\* Variant: the NotFoundError branch is missing.
ErrorMessage_noNotFound(err) ==
  IF err.isError
  THEN IF err.name = "NotAllowedError" THEN "Microphone permission denied"
       ELSE err.message
  ELSE "Unknown error occurred"

\* The message the catch block stores for a caught value.
ErrorMessage(err) ==
  IF err.isError
  THEN IF err.name = "NotAllowedError" THEN "Microphone permission denied"
       ELSE IF err.name = "NotFoundError" THEN "No microphone found"
       ELSE err.message
  ELSE "Unknown error occurred"

\* Variant: the catch block has no guard.
catchDropped_never(s, cs) == FALSE

\* Variant: the guard looks at mountedRef only.
catchDropped_mountedOnly(s, cs) == ~s.mountedRef

\* The guard at the head of the catch block.
catchDropped(s, cs) == ~s.mountedRef \/ cs # s.sessionRef

\* catch (err) { ... }
catchError(s, cs, err) ==
  IF catchDropped(s, cs) THEN s
  ELSE [s EXCEPT !.error = ErrorMessage(err), !.isActive = FALSE]

\* Variant: updateData has no guard.
updateDataReturns_never(s, cs) == FALSE

\* Variant: the guard does not compare sessions.
updateDataReturns_noSession(s, cs) == s.analyserRef = NoNode

\* The guard of updateData.
updateDataReturns(s, cs) == s.analyserRef = NoNode \/ cs # s.sessionRef

\* Variant: a refresh that finds its session gone reports it as an error.
updateData_reportsGone(s, cs, c, fr) ==
  IF updateDataReturns(s, cs) THEN [s EXCEPT !.error = "Session ended"]
  ELSE [s EXCEPT !.frequencyData.data = fr[1],
                 !.timeDomainData.data = fr[2],
                 !.scheduled = @ \cup {[handle |-> s.nextHandle, call |-> c]},
                 !.animationFrameRef = s.nextHandle,
                 !.nextHandle = @ + 1]

\* Variant: each refresh stores its samples in newly allocated arrays.
updateData_realloc(s, cs, c, fr) ==
  IF updateDataReturns(s, cs) THEN s
  ELSE [s EXCEPT !.frequencyData = [id |-> MaxCalls + c, len |-> @.len, data |-> fr[1]],
                 !.timeDomainData = [id |-> MaxCalls + c, len |-> @.len, data |-> fr[2]],
                 !.scheduled = @ \cup {[handle |-> s.nextHandle, call |-> c]},
                 !.animationFrameRef = s.nextHandle,
                 !.nextHandle = @ + 1]

\* updateData(): one refresh of both buffers, then re-arm.
updateData(s, cs, c, fr) ==
  IF updateDataReturns(s, cs) THEN s
  ELSE [s EXCEPT !.frequencyData.data = fr[1],
                 !.timeDomainData.data = fr[2],
                 !.scheduled = @ \cup {[handle |-> s.nextHandle, call |-> c]},
                 !.animationFrameRef = s.nextHandle,
                 !.nextHandle = @ + 1]

\* Variant: the check always lets the stream through.
staleAfterGum_never(s, cs) == FALSE

\* Variant: the check looks at mountedRef only.
staleAfterGum_mountedOnly(s, cs) == ~s.mountedRef

\* The check after the getUserMedia await.
staleAfterGum(s, cs) == cs # s.sessionRef \/ ~s.mountedRef

\* Lines 148-166: hold the stream, create and connect the source, mark the
\* hook active and run the first refresh.  srcThrows: the host refuses
\* createMediaStreamSource.
connectAndRun_noLoop(s, cs, c, srcThrows, fr) ==
  LET s1 == [s EXCEPT !.streamRef = c]
  IN IF s1.audioContextRef = NoCtx THEN catchError(s1, cs, NullTypeError)
     ELSE IF srcThrows THEN catchError(s1, cs, InvalidStateError)
     ELSE LET s2 == [s1 EXCEPT !.sourceRef = c]
          IN IF s2.analyserRef = NoNode THEN catchError(s2, cs, NullTypeError)
             ELSE LET s3 == [s2 EXCEPT !.sourceState[c] = "connected"]
                  IN [s3 EXCEPT !.isActive = TRUE]

connectAndRun(s, cs, c, srcThrows, fr) ==
  LET s1 == [s EXCEPT !.streamRef = c]
  IN IF s1.audioContextRef = NoCtx THEN catchError(s1, cs, NullTypeError)
     ELSE IF srcThrows THEN catchError(s1, cs, InvalidStateError)
     ELSE LET s2 == [s1 EXCEPT !.sourceRef = c]
          IN IF s2.analyserRef = NoNode THEN catchError(s2, cs, NullTypeError)
             ELSE LET s3 == [s2 EXCEPT !.sourceState[c] = "connected"]
                      s4 == [s3 EXCEPT !.isActive = TRUE]
                  IN updateData(s4, cs, c, fr)

\* Whether connectAndRun reaches setIsActive(true).
connectSucceeds(s, srcThrows) ==
  s.audioContextRef # NoCtx /\ ~srcThrows /\ s.analyserRef # NoNode

\* Variant: both buffers are sized by frequencyBinCount.
useAnalyser_binCountBoth(s, c, analyserNode) ==
  LET s1 == IF analyserNode # NoNode
            THEN [s EXCEPT !.userProvidedAnalyserRef = TRUE,
                           !.analyserRef = analyserNode,
                           !.audioContextRef = UserCtx(analyserNode.id)]
            ELSE [s EXCEPT !.userProvidedAnalyserRef = FALSE,
                           !.audioContextRef = OwnCtx(c),
                           !.analyserRef = OwnNode(c)]
  IN [s1 EXCEPT !.frequencyData = NewBuffer(c, frequencyBinCount(s1.analyserRef)),
                !.timeDomainData = NewBuffer(c, frequencyBinCount(s1.analyserRef))]

\* Lines 112-127: choose the analyser and allocate the buffers.
useAnalyser(s, c, analyserNode) ==
  LET s1 == IF analyserNode # NoNode
            THEN [s EXCEPT !.userProvidedAnalyserRef = TRUE,
                           !.analyserRef = analyserNode,
                           !.audioContextRef = UserCtx(analyserNode.id)]
            ELSE [s EXCEPT !.userProvidedAnalyserRef = FALSE,
                           !.audioContextRef = OwnCtx(c),
                           !.analyserRef = OwnNode(c)]
  IN [s1 EXCEPT !.frequencyData = NewBuffer(c, frequencyBinCount(s1.analyserRef)),
                !.timeDomainData = NewBuffer(c, fftSize(s1.analyserRef))]

\* Variant: the error is not cleared.
clearError_skip(s) == s

\* if (mountedRef.current) setError(null)
clearError(s) == IF s.mountedRef THEN [s EXCEPT !.error = NoError] ELSE s

\* ------------------------------------------------------------------ actions
Init ==
  /\ isActive = FALSE
  /\ error = NoError
  /\ frequencyData = NewBuffer(0, DEFAULT_FFT_SIZE \div 2)
  /\ timeDomainData = NewBuffer(0, DEFAULT_FFT_SIZE)
  /\ audioContextRef = NoCtx
  /\ analyserRef = NoNode
  /\ sourceRef = NULL
  /\ streamRef = NULL
  /\ animationFrameRef = NULL
  /\ userProvidedAnalyserRef = FALSE
  /\ mountedRef = TRUE
  /\ sessionRef = 0
  /\ streamState = [c \in Calls |-> "none"]
  /\ sourceState = [c \in Calls |-> "none"]
  /\ closedContexts = {}
  /\ scheduled = {}
  /\ nextHandle = 1
  /\ pc = [c \in Calls |-> "idle"]
  /\ currentSession = [c \in Calls |-> 0]
  /\ lastOp = <<"init", 0, "">>
  /\ lastUnmountSession = 0
  /\ retryOfDenied = {}
  /\ calledMounted = {}

\* The next start() invocation: calls are numbered in the order they are made.
NextCall(c) == pc[c] = "idle" /\ \A d \in Calls : d < c => pc[d] # "idle"

\* {c} when start() call c is made in the state a permission denial leaves.
AfterDenial(c) ==
  IF error = ErrorMessage(NotAllowedError) /\ ~isActive THEN {c} ELSE {}

\* {c} when start() call c is made while the effect's cleanup has not run
\* since the effect last did.
WhileMounted(c) == IF mountedRef THEN {c} ELSE {}

\* start() of a closure made without analyserNode, where new AudioContext()
\* throws: the catch block runs before the function returns.
StartThrows(c) ==
  /\ NextCall(c)
  /\ sessionRef < MaxSession
  /\ LET s1 == stop(S)
         cs == s1.sessionRef
         s2 == clearError(s1)
         s3 == [s2 EXCEPT !.userProvidedAnalyserRef = FALSE]
     IN /\ currentSession' = [currentSession EXCEPT ![c] = cs]
        /\ Commit(catchError(s3, cs, InvalidStateError))
  /\ pc' = [pc EXCEPT ![c] = "done"]
  /\ lastOp' = <<"start", c, "threw">>
  /\ retryOfDenied' = retryOfDenied \cup AfterDenial(c)
  /\ calledMounted' = calledMounted \cup WhileMounted(c)
  /\ UNCHANGED lastUnmountSession

\* start() up to the getUserMedia await.
Start(c, analyserNode) ==
  /\ NextCall(c)
  /\ sessionRef < MaxSession
  /\ LET s1 == stop(S)
         cs == s1.sessionRef
         s2 == clearError(s1)
     IN /\ currentSession' = [currentSession EXCEPT ![c] = cs]
        /\ Commit(useAnalyser(s2, c, analyserNode))
  /\ pc' = [pc EXCEPT ![c] = "gum"]
  /\ lastOp' = <<"start", c, "pending">>
  /\ retryOfDenied' = retryOfDenied \cup AfterDenial(c)
  /\ calledMounted' = calledMounted \cup WhileMounted(c)
  /\ UNCHANGED lastUnmountSession

\* getUserMedia resolves with a stream whose session is no longer current, or
\* after the unmount: the tracks are stopped and start() returns.
GumGrantStale(c) ==
  /\ pc[c] = "gum"
  /\ staleAfterGum(S, currentSession[c])
  /\ Commit([S EXCEPT !.streamState[c] = "ended"])
  /\ pc' = [pc EXCEPT ![c] = "done"]
  /\ lastOp' = <<"gumGrant", c, "discarded">>
  /\ UNCHANGED <<currentSession, histVars>>

\* getUserMedia resolves and the context reports 'suspended': start() awaits
\* resume().
GumGrantSuspended(c) ==
  /\ pc[c] = "gum"
  /\ ~staleAfterGum(S, currentSession[c])
  /\ audioContextRef # NoCtx
  /\ audioContextRef \notin closedContexts
  /\ Commit([S EXCEPT !.streamState[c] = "live"])
  /\ pc' = [pc EXCEPT ![c] = "resume"]
  /\ lastOp' = <<"gumGrant", c, "resume">>
  /\ UNCHANGED <<currentSession, histVars>>

\* getUserMedia resolves and the context is not suspended: start() runs to
\* its end.  src: the outcome of createMediaStreamSource; fr: the frame the
\* first updateData reads.
GumGrantRunning(c, src, fr) ==
  /\ pc[c] = "gum"
  /\ ~staleAfterGum(S, currentSession[c])
  /\ LET cs == currentSession[c]
         s0 == [S EXCEPT !.streamState[c] = "live"]
         ok == connectSucceeds(s0, src = "throws")
     IN /\ (audioContextRef = NoCtx) => (src = "ok")
        /\ (fr = NoFrame) <=> (~ok \/ updateDataReturns(s0, cs))
        /\ Commit(IF audioContextRef = NoCtx
                  THEN catchError(s0, cs, NullTypeError)   \* line 144 reads .state of null
                  ELSE connectAndRun(s0, cs, c, src = "throws", fr))
        /\ lastOp' = <<"gumGrant", c, IF ok THEN "active" ELSE "threw">>
  /\ pc' = [pc EXCEPT ![c] = "done"]
  /\ UNCHANGED <<currentSession, histVars>>

\* getUserMedia rejects with err.
GumReject(c, err) ==
  /\ pc[c] = "gum"
  /\ Commit(catchError(S, currentSession[c], err))
  /\ pc' = [pc EXCEPT ![c] = "done"]
  /\ lastOp' = <<"gumReject", c, err.name>>
  /\ UNCHANGED <<currentSession, histVars>>

\* audioContext.resume() resolves: start() continues at line 148.
ResumeResolve(c, src, fr) ==
  /\ pc[c] = "resume"
  /\ LET cs == currentSession[c]
         ok == connectSucceeds(S, src = "throws")
     IN /\ (audioContextRef = NoCtx) => (src = "ok")
        /\ (fr = NoFrame) <=> (~ok \/ updateDataReturns(S, cs))
        /\ Commit(connectAndRun(S, cs, c, src = "throws", fr))
        /\ lastOp' = <<"resumeResolve", c, IF ok THEN "active" ELSE "threw">>
  /\ pc' = [pc EXCEPT ![c] = "done"]
  /\ UNCHANGED <<currentSession, histVars>>

\* audioContext.resume() rejects.
ResumeReject(c) ==
  /\ pc[c] = "resume"
  /\ Commit(catchError(S, currentSession[c], InvalidStateError))
  /\ pc' = [pc EXCEPT ![c] = "done"]
  /\ lastOp' = <<"resumeReject", c, "threw">>
  /\ UNCHANGED <<currentSession, histVars>>

\* The host fires an animation-frame callback: updateData of the call that
\* registered it.
Tick(c, h, fr) ==
  /\ [handle |-> h, call |-> c] \in scheduled
  /\ nextHandle <= MaxHandles
  /\ LET s0 == [S EXCEPT !.scheduled = @ \ {[handle |-> h, call |-> c]}]
         cs == currentSession[c]
     IN /\ (fr = NoFrame) <=> updateDataReturns(s0, cs)
        /\ Commit(updateData(s0, cs, c, fr))
  /\ lastOp' = <<"tick", c, "">>
  /\ UNCHANGED <<callVars, histVars>>

\* A caller invokes stop().
Stop ==
  /\ sessionRef < MaxSession
  /\ Commit(stop(S))
  /\ lastOp' = <<"stop", 0, IF lastOp[1] \in {"stop", "unmount"} THEN "again" ELSE "">>
  /\ UNCHANGED <<callVars, histVars>>

\* The effect's cleanup: mountedRef.current = false; stop()
Unmount ==
  /\ mountedRef
  /\ sessionRef < MaxSession
  /\ LET s1 == stop([S EXCEPT !.mountedRef = FALSE])
     IN /\ Commit(s1)
        /\ lastUnmountSession' = s1.sessionRef
  /\ lastOp' = <<"unmount", 0, "">>
  /\ UNCHANGED <<callVars, retryOfDenied, calledMounted>>

\* The effect runs again (StrictMode, a re-shown subtree): mountedRef.current = true
Mount ==
  /\ ~mountedRef
  /\ Commit([S EXCEPT !.mountedRef = TRUE])
  /\ lastOp' = <<"mount", 0, "">>
  /\ UNCHANGED <<callVars, histVars>>

\* A caller invokes stop() and a release call throws: stop() throws.
StopRaises(fault) ==
  /\ sessionRef < MaxSession
  /\ stopRaises(S, fault)
  /\ Commit(stopAborted(S, fault))
  /\ lastOp' = <<"stop", 0, "threw">>
  /\ UNCHANGED <<callVars, histVars>>

\* The effect's cleanup when a release call of its stop() throws.
UnmountRaises(fault) ==
  /\ mountedRef
  /\ sessionRef < MaxSession
  /\ stopRaises(S, fault)
  /\ LET s1 == stopAborted([S EXCEPT !.mountedRef = FALSE], fault)
     IN /\ Commit(s1)
        /\ lastUnmountSession' = s1.sessionRef
  /\ lastOp' = <<"unmount", 0, "threw">>
  /\ UNCHANGED <<callVars, retryOfDenied, calledMounted>>

\* start() when a release call of its leading stop() throws: the call is made
\* before the try block, so the promise start() returns is rejected and
\* nothing after the call runs.
StartRaises(c, fault) ==
  /\ NextCall(c)
  /\ sessionRef < MaxSession
  /\ stopRaises(S, fault)
  /\ Commit(stopAborted(S, fault))
  /\ pc' = [pc EXCEPT ![c] = "rejected"]
  /\ lastOp' = <<"start", c, "rejected">>
  /\ retryOfDenied' = retryOfDenied \cup AfterDenial(c)
  /\ calledMounted' = calledMounted \cup WhileMounted(c)
  /\ UNCHANGED <<currentSession, lastUnmountSession>>

Next ==
  \/ \E c \in Calls, analyserNode \in AnalyserOptions : Start(c, analyserNode)
  \/ \E c \in Calls : StartThrows(c)
  \/ \E c \in Calls : GumGrantStale(c)
  \/ \E c \in Calls : GumGrantSuspended(c)
  \/ \E c \in Calls, src \in HostOutcomes, fr \in Frames \cup {NoFrame} :
       GumGrantRunning(c, src, fr)
  \/ \E c \in Calls, err \in GumErrors : GumReject(c, err)
  \/ \E c \in Calls, src \in HostOutcomes, fr \in Frames \cup {NoFrame} :
       ResumeResolve(c, src, fr)
  \/ \E c \in Calls : ResumeReject(c)
  \/ \E c \in Calls, h \in Handles, fr \in Frames \cup {NoFrame} : Tick(c, h, fr)
  \/ Stop
  \/ Unmount
  \/ Mount

Spec == Init /\ [][Next]_vars

\* The same program on a host whose release calls can throw.
NextFaulty ==
  \/ Next
  \/ \E fault \in ReleaseFaults : StopRaises(fault)
  \/ \E fault \in ReleaseFaults : UnmountRaises(fault)
  \/ \E c \in Calls, fault \in ReleaseFaults : StartRaises(c, fault)

SpecFaulty == Init /\ [][NextFaulty]_vars

\* The mounted hook, with callers that supply an analyser of any valid size.
NextSizes ==
  \/ \E c \in Calls, analyserNode \in SizedOptions : Start(c, analyserNode)
  \/ \E c \in Calls : StartThrows(c)
  \/ \E c \in Calls : GumGrantStale(c)
  \/ \E c \in Calls : GumGrantSuspended(c)
  \/ \E c \in Calls, src \in HostOutcomes, fr \in Frames \cup {NoFrame} :
       GumGrantRunning(c, src, fr)
  \/ \E c \in Calls, err \in GumErrors : GumReject(c, err)
  \/ \E c \in Calls, src \in HostOutcomes, fr \in Frames \cup {NoFrame} :
       ResumeResolve(c, src, fr)
  \/ \E c \in Calls : ResumeReject(c)
  \/ \E c \in Calls, h \in Handles, fr \in Frames \cup {NoFrame} : Tick(c, h, fr)
  \/ Stop

SpecSizes == Init /\ [][NextSizes]_vars

\* The hook used as App.tsx uses it: useAudio() without an analyserNode.
NextDefault ==
  \/ \E c \in Calls : Start(c, NoNode)
  \/ \E c \in Calls : StartThrows(c)
  \/ \E c \in Calls : GumGrantStale(c)
  \/ \E c \in Calls : GumGrantSuspended(c)
  \/ \E c \in Calls, src \in HostOutcomes, fr \in Frames \cup {NoFrame} :
       GumGrantRunning(c, src, fr)
  \/ \E c \in Calls, err \in GumErrors : GumReject(c, err)
  \/ \E c \in Calls, src \in HostOutcomes, fr \in Frames \cup {NoFrame} :
       ResumeResolve(c, src, fr)
  \/ \E c \in Calls : ResumeReject(c)
  \/ \E c \in Calls, h \in Handles, fr \in Frames \cup {NoFrame} : Tick(c, h, fr)
  \/ Stop
  \/ Unmount
  \/ Mount

SpecDefault == Init /\ [][NextDefault]_vars

\* A frame callback of call c fires on a host that goes on firing them for as
\* long as they are registered: updateData, as in Tick, without the bound on
\* the ids handed out.  requestAnimationFrame returns an id that no pending
\* callback carries; the id h of the callback that has just run is such an id,
\* and the model hands that one out again, so that the ids in use stay finite.
\* The hook never compares ids: it only passes the latest one to
\* cancelAnimationFrame.
TickLive(c, h, fr) ==
  /\ [handle |-> h, call |-> c] \in scheduled
  /\ LET s0 == [S EXCEPT !.scheduled = @ \ {[handle |-> h, call |-> c]}]
         cs == currentSession[c]
         s1 == updateData(s0, cs, c, fr)
     IN /\ (fr = NoFrame) <=> updateDataReturns(s0, cs)
        /\ Commit(IF updateDataReturns(s0, cs) THEN s1
                  ELSE [s1 EXCEPT !.scheduled = s0.scheduled \cup {[handle |-> h, call |-> c]},
                                  !.animationFrameRef = h,
                                  !.nextHandle = s0.nextHandle])
  /\ lastOp' = <<"tick", c, "">>
  /\ UNCHANGED <<callVars, histVars>>

\* The renders and the rejections of getUserMedia the unbounded run explores:
\* one without and one with an analyserNode, and one kind of rejection.
LiveOptions == {NoNode, UserNode(32)}
LiveErrors == {NotAllowedError}

\* The session changes explored where frame callbacks never run out.
MaxLiveSession == MaxSession - 1

LiveStart(c, analyserNode) == sessionRef < MaxLiveSession /\ Start(c, analyserNode)
LiveStartThrows(c) == sessionRef < MaxLiveSession /\ StartThrows(c)
LiveStop == sessionRef < MaxLiveSession /\ Stop
LiveUnmount == sessionRef < MaxLiveSession /\ Unmount

\* The program of Next with frame callbacks that never run out.
NextLive ==
  \/ \E c \in Calls, analyserNode \in LiveOptions : LiveStart(c, analyserNode)
  \/ \E c \in Calls : LiveStartThrows(c)
  \/ \E c \in Calls : GumGrantStale(c)
  \/ \E c \in Calls : GumGrantSuspended(c)
  \/ \E c \in Calls, src \in HostOutcomes, fr \in Frames \cup {NoFrame} :
       GumGrantRunning(c, src, fr)
  \/ \E c \in Calls, err \in LiveErrors : GumReject(c, err)
  \/ \E c \in Calls, src \in HostOutcomes, fr \in Frames \cup {NoFrame} :
       ResumeResolve(c, src, fr)
  \/ \E c \in Calls : ResumeReject(c)
  \/ \E c \in Calls, h \in Handles, fr \in Frames \cup {NoFrame} : TickLive(c, h, fr)
  \/ LiveStop
  \/ LiveUnmount
  \/ Mount

\* That program on a host that fires every frame callback it holds, those of
\* each session in turn, and settles every resume() it was asked for, one way
\* or the other.
SpecLive ==
  /\ Init /\ [][NextLive]_vars
  /\ \A c \in Calls :
       WF_vars(\E h \in Handles, fr \in Frames \cup {NoFrame} : TickLive(c, h, fr))
  /\ \A c \in Calls :
       WF_vars(\/ \E src \in HostOutcomes, fr \in Frames \cup {NoFrame} :
                    ResumeResolve(c, src, fr)
               \/ ResumeReject(c))

\* App.tsx under React StrictMode: the effects run (mount, start()), the
\* simulated unmount runs the cleanup, the effects run again (mount, start()),
\* all within one commit; the two microphone requests settle afterwards.
Remounted == mountedRef /\ lastUnmountSession # 0

StrictStart(c) ==
  /\ (c = 1 /\ lastUnmountSession = 0) \/ (c = 2 /\ Remounted)
  /\ Start(c, NoNode)

StrictUnmount == pc[1] = "gum" /\ lastUnmountSession = 0 /\ Unmount

StrictMount == lastUnmountSession # 0 /\ Mount

\* The settlements of the two requests and what follows them, once the
\* component is mounted again.
StrictGumGrantStale(c) == Remounted /\ GumGrantStale(c)
StrictGumGrantSuspended(c) == Remounted /\ GumGrantSuspended(c)
StrictGumGrantRunning(c, src, fr) == Remounted /\ GumGrantRunning(c, src, fr)
StrictGumReject(c, err) == Remounted /\ GumReject(c, err)
StrictResumeResolve(c, src, fr) == Remounted /\ ResumeResolve(c, src, fr)
StrictResumeReject(c) == Remounted /\ ResumeReject(c)
StrictTick(c, h, fr) == Remounted /\ Tick(c, h, fr)

NextStrict ==
  \/ \E c \in Calls : StrictStart(c)
  \/ StrictUnmount
  \/ StrictMount
  \/ \E c \in Calls : StrictGumGrantStale(c)
  \/ \E c \in Calls : StrictGumGrantSuspended(c)
  \/ \E c \in Calls, src \in HostOutcomes, fr \in Frames \cup {NoFrame} :
       StrictGumGrantRunning(c, src, fr)
  \/ \E c \in Calls, err \in GumErrors : StrictGumReject(c, err)
  \/ \E c \in Calls, src \in HostOutcomes, fr \in Frames \cup {NoFrame} :
       StrictResumeResolve(c, src, fr)
  \/ \E c \in Calls : StrictResumeReject(c)
  \/ \E c \in Calls, h \in Handles, fr \in Frames \cup {NoFrame} : StrictTick(c, h, fr)

SpecStrict == Init /\ [][NextStrict]_vars

\* ------------------------------------------------------------------ claims
Started(c) == pc[c] # "idle"
Stale(c) == Started(c) /\ currentSession[c] # sessionRef
Current(c) == Started(c) /\ currentSession[c] = sessionRef
\* The step is made by a continuation of start() call c.
GrantOf(c) == lastOp'[1] = "gumGrant" /\ lastOp'[2] = c
RejectOf(c) == lastOp'[1] = "gumReject" /\ lastOp'[2] = c
ResumeOf(c) == lastOp'[1] \in {"resumeResolve", "resumeReject"} /\ lastOp'[2] = c
TickOf(c) == lastOp'[1] = "tick" /\ lastOp'[2] = c
BuffersUnchanged == UNCHANGED <<frequencyData, timeDomainData>>
LiveStreams == {c \in Calls : streamState[c] = "live"}

\* C1: when a second start() is made while the first one's microphone request
\* is pending, the first request's grant, whenever it arrives, writes no
\* buffer, leaves ActivityFlag and the held stream alone and has its own
\* stream's tracks stopped.
C1_CancellationRace ==
  [][\A c1 \in Calls :
       (pc[c1] = "gum" /\ (\E c2 \in Calls : c2 > c1 /\ Started(c2)) /\ GrantOf(c1))
         => /\ isActive' = isActive
            /\ BuffersUnchanged
            /\ streamRef' = streamRef
            /\ streamState'[c1] = "ended"]_vars

\* The first request's grant arrives after the second session became active.
C1_Witness ==
  /\ lastOp = <<"gumGrant", 1, "discarded">>
  /\ streamState[1] = "ended"
  /\ isActive /\ streamRef = 2 /\ Current(2)

\* C2: once the session counter has moved past the value a start() captured,
\* no continuation of that start() (after the getUserMedia await, after the
\* resume await, or a refresh tick) changes the held stream, the source link,
\* ActivityFlag, ErrorState or the buffers.
C2_StaleContinuationInert ==
  [][\A c \in Calls :
       (Stale(c) /\ (GrantOf(c) \/ RejectOf(c) \/ ResumeOf(c) \/ TickOf(c)))
         => /\ UNCHANGED <<streamRef, sourceRef, isActive, error>>
            /\ BuffersUnchanged]_vars

\* C3: no microphone stream is leaked: at most one granted stream is
\* unreleased at any time, and once every start() has settled after a stop()
\* or unmount that no start() followed, no granted stream is unreleased.
C3_NoStreamLeak ==
  /\ Cardinality(LiveStreams) <= 1
  /\ ((\A c \in Calls : pc[c] \in {"idle", "done"} /\ ~Current(c))
        => LiveStreams = {})

\* C4: a microphone request that was pending when the component was
\* unmounted, whenever it resolves (also after a remount), writes no buffer
\* and updates neither ActivityFlag nor ErrorState; a granted stream has its
\* tracks stopped.
C4_DisposalSafety ==
  [][\A c \in Calls :
       (pc[c] = "gum" /\ currentSession[c] < lastUnmountSession
          /\ (GrantOf(c) \/ RejectOf(c)))
         => /\ UNCHANGED <<isActive, error>>
            /\ BuffersUnchanged
            /\ (GrantOf(c) => streamState'[c] = "ended")]_vars

\* A request pending at the unmount was granted after the remount.
C4_Witness ==
  \E c \in Calls :
    /\ lastOp = <<"gumGrant", c, "discarded">>
    /\ currentSession[c] < lastUnmountSession
    /\ mountedRef
    /\ streamState[c] = "ended"

\* A session that is live: it is the current one, its stream is held and
\* unreleased, its source is connected and its refresh tick is scheduled.
LiveSession(c) ==
  /\ Current(c)
  /\ streamRef = c /\ streamState[c] = "live"
  /\ sourceRef = c /\ sourceState[c] = "connected"
  /\ \E cb \in scheduled : cb.call = c

\* C5: ActivityFlag is true only if the current session holds a granted,
\* unreleased stream connected to the analyser and its refresh loop is
\* running (stated for the hook's mounted lifetime, before any unmount).
C5_ActiveMeansLive ==
  (isActive /\ lastUnmountSession = 0) => \E c \in Calls : LiveSession(c)

\* C6: every refresh that writes the buffers is made by the current session,
\* and every refresh the host still holds belongs to the current session.
C6_OneLiveSession ==
  /\ [](\A cb \in scheduled : Current(cb.call))
  /\ [][\A c \in Calls :
          ((TickOf(c) \/ GrantOf(c) \/ ResumeOf(c)) /\ ~BuffersUnchanged)
            => currentSession[c] = sessionRef]_vars

\* A tick of the second session wrote the buffers the second start() allocated.
C6_Witness ==
  /\ lastOp = <<"tick", 2, "">>
  /\ timeDomainData.id = 2 /\ timeDomainData.data # 0
  /\ Stale(1)

ObservableVars ==
  <<isActive, error, frequencyData, timeDomainData, streamRef, sourceRef,
    audioContextRef, analyserRef, animationFrameRef, userProvidedAnalyserRef,
    streamState, sourceState, closedContexts, scheduled>>

\* C7 as stated: a stop() directly after a stop() (or after the unmount, which
\* ends with stop()) changes nothing but the session counter, and ActivityFlag
\* is false after it.
C7_Original ==
  [][lastOp' = <<"stop", 0, "again">>
       => /\ UNCHANGED ObservableVars
          /\ sessionRef' = sessionRef + 1
          /\ ~isActive']_vars

\* C7 amended: a stop() directly after a stop() (or after the unmount, which
\* ends with stop()) changes nothing but the session counter; ActivityFlag is
\* false after it when the component is mounted, and what the unmount left
\* otherwise.
C7_StopIdempotent ==
  [][lastOp' = <<"stop", 0, "again">>
       => /\ UNCHANGED ObservableVars
          /\ sessionRef' = sessionRef + 1
          /\ (mountedRef => ~isActive')]_vars

\* Two stop() calls in a row ended a session that held a stream, a source and
\* a context of its own.
C7_Witness ==
  /\ lastOp = <<"stop", 0, "again">>
  /\ mountedRef /\ ~isActive
  /\ \E c \in Calls :
       /\ currentSession[c] = sessionRef - 2
       /\ streamState[c] = "ended" /\ sourceState[c] = "disconnected"
       /\ OwnCtx(c) \in closedContexts

\* What stop() leaves apart from ActivityFlag.
StopReleased ==
  /\ streamRef' = NULL /\ sourceRef' = NULL
  /\ animationFrameRef' = NULL /\ scheduled' = {}
  /\ streamRef # NULL => streamState'[streamRef] = "ended"
  /\ sourceRef # NULL => sourceState'[sourceRef] = "disconnected"

\* C8 as stated: after stop() no stream is held, the held stream's tracks are
\* stopped, the source is disconnected and cleared, no tick is scheduled and
\* ActivityFlag is false.
C8_Original ==
  [][lastOp'[1] = "stop" => (StopReleased /\ isActive' = FALSE)]_vars

\* C8 amended: as C8, with ActivityFlag false when the component is mounted
\* and left as it was when it is not.
C8_StopReleases ==
  [][lastOp'[1] = "stop"
       => /\ StopReleased
          /\ isActive' = (IF mountedRef THEN FALSE ELSE isActive)]_vars

\* stop() ended the session of call c, which held a stream and a source.
C8_Witness ==
  /\ lastOp[1] = "stop"
  /\ \E c \in Calls :
       /\ currentSession[c] = sessionRef - 1
       /\ streamState[c] = "ended" /\ sourceState[c] = "disconnected"
  /\ streamRef = NULL /\ sourceRef = NULL /\ ~isActive

\* C9: close() is only ever called on a context the pipeline created.
C9_NeverClosesCallerContext ==
  \A x \in closedContexts : x.kind = "own"

\* The step ends start() call c after its request was granted.
GrantedEnds(c) ==
  /\ lastOp'[2] = c
  /\ \/ lastOp'[1] = "gumGrant" /\ lastOp'[3] # "resume"
     \/ lastOp'[1] \in {"resumeResolve", "resumeReject"}

DeniedOf(c) == RejectOf(c) /\ lastOp'[3] = "NotAllowedError"

\* C10 as stated: a permission denial of the current session leaves ErrorState
\* non-null and ActivityFlag false, and a start() made after it whose request
\* is granted ends with ErrorState null and ActivityFlag true.
C10_Original ==
  [][\A c \in Calls :
       /\ (DeniedOf(c) /\ currentSession[c] = sessionRef)
            => (error' # NoError /\ ~isActive')
       /\ (c \in retryOfDenied /\ GrantedEnds(c))
            => (error' = NoError /\ isActive')]_vars

\* C10 amended: a permission denial of the current session that arrives
\* while the component is mounted leaves ErrorState non-null and ActivityFlag
\* false, and a start() made after it while the component is mounted, whose
\* request is granted, which is still the current session when it ends and
\* whose context resume and source creation do not fail, ends with ErrorState
\* null and ActivityFlag true.
C10_ErrorThenRetry ==
  [][\A c \in Calls :
       /\ (DeniedOf(c) /\ currentSession[c] = sessionRef /\ mountedRef)
            => (error' = "Microphone permission denied" /\ ~isActive')
       /\ (c \in retryOfDenied \cap calledMounted
             /\ currentSession[c] = sessionRef
             /\ \/ lastOp' = <<"gumGrant", c, "active">>
                \/ lastOp' = <<"resumeResolve", c, "active">>)
            => (error' = NoError /\ isActive')]_vars

\* The retry after a denial, made once the component had been unmounted and
\* mounted again, ended active, having resumed its context.
C10_Witness ==
  \E c \in retryOfDenied \cap calledMounted :
    /\ lastOp = <<"resumeResolve", c, "active">>
    /\ Current(c)
    /\ isActive /\ error = NoError
    /\ lastUnmountSession # 0

\* The message the error table assigns to a rejection of getUserMedia, by the
\* name the rejection carries ("" for a value that is not an Error).
TableMessage(name) ==
  CASE name = "NotAllowedError"  -> "Microphone permission denied"
    [] name = "NotFoundError"    -> "No microphone found"
    [] name = "NotReadableError" -> "Could not start audio source"
    [] name = ""                 -> "Unknown error occurred"

\* The step is a start() of call c ending in its catch block with a host error
\* other than a getUserMedia rejection.
ThrewOf(c) ==
  /\ lastOp'[2] = c
  /\ lastOp'[3] = "threw"
  /\ lastOp'[1] \in {"start", "gumGrant", "resumeResolve", "resumeReject"}

\* What C11 says of a failing step of the current session.
FailureMapped(c) ==
  /\ (RejectOf(c) /\ currentSession[c] = sessionRef)
       => (error' = TableMessage(lastOp'[3]) /\ ~isActive')
  /\ (ThrewOf(c) /\ currentSession'[c] = sessionRef')
       => (error' = "The operation is not allowed" /\ ~isActive')

\* C11 as stated: a failed start() of the current session stores the mapped
\* message in ErrorState and sets ActivityFlag false.
C11_Original ==
  [][\A c \in Calls : FailureMapped(c)]_vars

\* C11 amended: the same, for a component that is mounted when the failure
\* arrives; a failure that arrives while the component is unmounted writes
\* neither ErrorState nor ActivityFlag.
C11_FailureMapped ==
  [][\A c \in Calls :
       /\ mountedRef => FailureMapped(c)
       /\ (~mountedRef /\ (RejectOf(c) \/ ThrewOf(c)))
            => UNCHANGED <<error, isActive>>]_vars

\* A missing device was reported for the current session.
C11_Witness ==
  \E c \in Calls :
    /\ lastOp = <<"gumReject", c, "NotFoundError">>
    /\ Current(c) /\ mountedRef
    /\ error = "No microphone found" /\ ~isActive

\* C12 as stated: start() never propagates a failure to its caller, whichever
\* of its steps fails: the promise it returns is never rejected.
C12_StartNeverRejects ==
  \A c \in Calls : pc[c] # "rejected"

\* The step is a stop(), called directly or by the effect's cleanup.
StopStep == lastOp'[1] \in {"stop", "unmount"}

\* C13 as stated: stop() never fails: an error raised by a release call is
\* swallowed, the rest of the cleanup completes (no stream, source or frame
\* held, an owned context released) and ActivityFlag ends false.
C13_StopNeverFails ==
  [][StopStep =>
       /\ lastOp'[3] # "threw"
       /\ streamRef' = NULL /\ sourceRef' = NULL /\ animationFrameRef' = NULL
       /\ (~userProvidedAnalyserRef' => audioContextRef' = NoCtx)
       /\ (mountedRef' => ~isActive')]_vars

\* The step is a failure of start() call c: a rejected microphone request, or a
\* host error caught after the grant or at context creation.
FailureOf(c) == RejectOf(c) \/ ThrewOf(c)

\* start() call c is the most recent one.
MostRecent(c) == \A d \in Calls : d > c => pc'[d] = "idle"

\* The parts of C14 that do not depend on the component being mounted: stop()
\* leaves ErrorState unchanged, a failure of a stale call never writes it, and
\* it is written non-null only by a failure of the most recent start().
ErrorWrittenByLatestFailure ==
  /\ StopStep => error' = error
  /\ \A c \in Calls :
       (FailureOf(c) /\ lastOp'[1] # "start" /\ currentSession[c] # sessionRef)
         => error' = error
  /\ (error' # NoError /\ error' # error)
       => \E c \in Calls : FailureOf(c) /\ MostRecent(c)
                           /\ currentSession'[c] = sessionRef'

\* start() call c has reached its microphone request in this step.
StartPending(c) == lastOp' = <<"start", c, "pending">>

\* C14 as stated: every start() clears ErrorState at its beginning, stop()
\* leaves it unchanged and a stale failure is never written, so ErrorState is
\* non-null only when the most recent start() failed.
C14_Original ==
  [][/\ ErrorWrittenByLatestFailure
     /\ \A c \in Calls : StartPending(c) => error' = NoError]_vars

\* C14 amended: the same, where a start() clears ErrorState at its beginning
\* when the component is mounted.
C14_ErrorOnlyFromLatestStart ==
  [][/\ ErrorWrittenByLatestFailure
     /\ \A c \in Calls : (StartPending(c) /\ mountedRef) => error' = NoError]_vars

\* The rejection of a replaced call's request arrived while a newer start()
\* was pending, and was not written.
C14_Witness ==
  \E c, d \in Calls :
    /\ lastOp[1] = "gumReject" /\ lastOp[2] = c
    /\ Stale(c) /\ Current(d) /\ pc[d] = "gum"
    /\ mountedRef /\ error = NoError

\* C15 as stated: unmount invokes stop(), after which no stream is held and
\* no tick is scheduled; and from the unmount until the component is mounted
\* again no step updates ActivityFlag or ErrorState, whichever completion
\* arrives and also when start() or stop() is called.
C15_UnmountSafety ==
  [][/\ lastOp'[1] = "unmount"
          => (sessionRef' = sessionRef + 1 /\ streamRef' = NULL /\ scheduled' = {})
     /\ (~mountedRef /\ ~mountedRef') => UNCHANGED <<isActive, error>>]_vars

\* The fftSize configured on an analyser: the caller's, or the one start()
\* sets on the analyser it creates.
ConfiguredSize(node) == IF node.kind = "user" THEN node.id ELSE 2048

\* The step ends start() call c successfully.
SucceedsOf(c) == lastOp'[2] = c /\ lastOp'[3] = "active"

\* C16: for every valid transform size N configured on the analyser in use,
\* when a start() succeeds the frequency buffer has N/2 slots and the
\* time-domain buffer has N.
C16_BufferSizing ==
  [][\A c \in Calls :
       SucceedsOf(c) =>
         LET N == ConfiguredSize(analyserRef')
         IN /\ N \in ValidFftSizes
            /\ frequencyData'.len * 2 = N
            /\ timeDomainData'.len = N]_vars

\* A start() succeeded on an analyser of the largest size, whose buffers
\* differ from the ones made at construction.
C16_Witness ==
  \E c \in Calls :
    /\ lastOp[2] = c /\ lastOp[3] = "active"
    /\ analyserRef = UserNode(32768)
    /\ frequencyData.len = 16384 /\ timeDomainData.len = 32768

\* Both buffers have the lengths of the default transform size.
DefaultLengths == frequencyData.len = 1024 /\ timeDomainData.len = 2048

\* The step ends, after the grant of its request, the first start() made on a
\* fresh pipeline: nothing was started, stopped or unmounted before it.
FreshGrantedEnds ==
  /\ pc[1] \in {"gum", "resume"} /\ pc'[1] = "done"
  /\ currentSession[1] = 1
  /\ GrantOf(1) \/ ResumeOf(1)

\* C17 as stated: with no analyser supplied the buffers have 1024 and 2048
\* entries before and after every start(), and from a fresh pipeline a start()
\* whose request is granted ends with ActivityFlag true and ErrorState null.
C17_Original ==
  /\ []DefaultLengths
  /\ [][FreshGrantedEnds => (isActive' /\ error' = NoError)]_vars

\* C17 amended: the same, for a granted start() that is still the current
\* session when it ends and meets no host error after the grant.
C17_DefaultConfiguration ==
  /\ []DefaultLengths
  /\ [][(FreshGrantedEnds /\ currentSession[1] = sessionRef /\ lastOp'[3] # "threw")
          => (isActive' /\ error' = NoError)]_vars

\* The first start() on a fresh pipeline was granted and, after resuming the
\* context, ended active, with buffers that start() allocated.
C17_Witness ==
  /\ lastOp = <<"resumeResolve", 1, "active">>
  /\ currentSession[1] = 1 /\ sessionRef = 1
  /\ isActive /\ error = NoError
  /\ frequencyData = [id |-> 1, len |-> 1024, data |-> frequencyData.data]
  /\ timeDomainData.id = 1 /\ timeDomainData.len = 2048

\* Both buffers are the same arrays, of the same length, after the step.
SameArrays ==
  /\ frequencyData'.id = frequencyData.id /\ frequencyData'.len = frequencyData.len
  /\ timeDomainData'.id = timeDomainData.id /\ timeDomainData'.len = timeDomainData.len

\* C18: the two buffers are replaced or resized only by a step of start()
\* itself: a refresh tick writes into the existing arrays, and stop(), unmount
\* and every completion of a request or resume, stale or failed included, leave
\* the arrays and their lengths as they are.
C18_BuffersReplacedOnlyByStart ==
  [][lastOp'[1] # "start" => SameArrays]_vars

\* A tick of a session has overwritten the arrays its start() allocated.
C18_Witness ==
  \E c \in Calls :
    /\ lastOp[1] = "tick" /\ lastOp[2] = c
    /\ frequencyData = [id |-> c, len |-> 16, data |-> 255]
    /\ timeDomainData = [id |-> c, len |-> 32, data |-> 255]

\* No session is running: the current session, if a start() has opened one
\* since the last stop(), has not had its request granted.
Frozen == \A c \in Calls : Current(c) => streamState[c] = "none"

\* The step is the grant of the current session's request.
GrantOfCurrent == \E c \in Calls : Current(c) /\ GrantOf(c)

\* What a consumer reads from the two buffers is the same after the step.
ContentsUnchanged ==
  /\ frequencyData'.data = frequencyData.data
  /\ timeDomainData'.data = timeDomainData.data

\* C19 as stated: from the return of stop() until the request of the next
\* start() is granted, no step changes what the buffers hold, and stop()
\* itself does not clear them.
C19_Original ==
  [][/\ StopStep => BuffersUnchanged
     /\ (Frozen /\ ~GrantOfCurrent) => ContentsUnchanged]_vars

\* C19 amended: the buffers keep their last values from the return of stop()
\* until the next start() is called; that start() replaces them with
\* zero-filled arrays, which stay unwritten until its request is granted.
C19_FrozenAfterStop ==
  [][/\ StopStep => BuffersUnchanged
     /\ (Frozen /\ ~GrantOfCurrent /\ lastOp'[1] # "start") => BuffersUnchanged
     /\ \A c \in Calls :
          StartPending(c) => (frequencyData'.data = 0 /\ timeDomainData'.data = 0)]_vars

\* stop() has returned and the buffers still hold the last samples a tick
\* wrote.
C19_Witness ==
  /\ lastOp[1] = "stop"
  /\ Frozen /\ \A c \in Calls : ~Current(c)
  /\ frequencyData.data = 255 /\ timeDomainData.data = 255

\* C20: the session counter only grows, by exactly one in every stop() (the
\* cleanup of unmount included) and in every start(), which captures the
\* value its own leading stop() produced; no other step changes it, and no
\* two start() calls hold the same captured value.
C20_SessionMonotonic ==
  /\ [][/\ (StopStep \/ lastOp'[1] = "start") => sessionRef' = sessionRef + 1
        /\ ~(StopStep \/ lastOp'[1] = "start") => sessionRef' = sessionRef
        /\ \A c \in Calls :
             lastOp'[1] = "start" /\ lastOp'[2] = c
               => (currentSession'[c] = sessionRef + 1
                   /\ \A d \in Calls \ {c} : currentSession'[d] = currentSession[d])
        /\ lastOp'[1] # "start" => currentSession' = currentSession]_vars
  /\ [](\A c, d \in Calls :
          (Started(c) /\ Started(d) /\ c # d) => currentSession[c] # currentSession[d])

\* Two start() calls separated by a stop() hold captured values two apart.
C20_Witness ==
  /\ Started(1) /\ Started(2)
  /\ currentSession[1] = 1 /\ currentSession[2] = 3 /\ sessionRef = 3

\* The host holds at most one refresh callback: the one animationFrameRef
\* names, registered by the current session.
OneScheduled ==
  \A cb \in scheduled :
    scheduled = {cb} /\ cb.handle = animationFrameRef /\ Current(cb.call)

\* A tick of call c either returns at its guard, leaving the buffers alone and
\* scheduling nothing, or writes one frame to both buffers and then registers
\* exactly one successor.
TickSequential(c) ==
  \/ BuffersUnchanged /\ scheduled' = {}
  \/ /\ <<frequencyData'.data, timeDomainData'.data>> \in Frames
     /\ scheduled' = {[handle |-> nextHandle, call |-> c]}
     /\ animationFrameRef' = nextHandle /\ nextHandle' = nextHandle + 1

\* C21: refresh ticks are strictly sequential: at most one refresh callback is
\* ever scheduled, a tick registers its successor only together with its two
\* buffer writes, and a start() leaves no callback of the session it replaced.
C21_TicksSequential ==
  /\ []OneScheduled
  /\ [][/\ \A c \in Calls : TickOf(c) => TickSequential(c)
        /\ lastOp'[1] = "start" => scheduled' = {}]_vars

\* A start() was made on an active pipeline whose tick had re-armed itself:
\* the replaced session's callback is gone and none is scheduled yet.
C21_Witness ==
  /\ lastOp = <<"start", 2, "pending">>
  /\ streamState[1] = "ended" /\ nextHandle = 3
  /\ scheduled = {} /\ animationFrameRef = NULL

\* The request of start() call c was granted and no stop(), start() or unmount
\* has happened since the call.
Granted(c) == Current(c) /\ streamState[c] # "none"

\* The same, where start() took the granted stream on.
Accepted(c) == Current(c) /\ streamState[c] = "live"

\* start() call c ended in its catch block.
Failed(c) == pc[c] = "done" /\ error # NoError

\* The session of call c is active with its refresh loop armed.
ActiveLooping(c) == isActive /\ pc[c] = "done" /\ animationFrameRef # NULL

\* The step is a frame callback of call c that writes a frame to both buffers
\* and registers its successor.
TickWrites(c) ==
  /\ TickOf(c)
  /\ <<frequencyData'.data, timeDomainData'.data>> \in Frames
  /\ [handle |-> animationFrameRef', call |-> c] \in scheduled'

\* Once active, the session of call c stays active while it is current, and
\* unless a stop(), a start() or an unmount ends it, its frame callbacks write
\* both buffers again and again, without end.
StaysActiveAndTicks ==
  /\ [][\A c \in Calls :
          (Current(c) /\ pc[c] = "done" /\ isActive /\ sessionRef' = sessionRef)
            => isActive']_vars
  /\ \A c \in Calls :
       \/ []<>~(Current(c) /\ ActiveLooping(c))
       \/ []<><<TickWrites(c)>>_vars

\* C22 as stated: a start() whose request is granted and that no stop(),
\* start() or unmount follows eventually makes ActivityFlag true, which stays
\* true, with refresh ticks that keep firing.
C22_Original ==
  /\ \A c \in Calls : Granted(c) ~> (~Current(c) \/ ActiveLooping(c))
  /\ StaysActiveAndTicks

\* C22 amended: the same for a granted stream that start() took on (the
\* component was mounted at the grant and the call still the latest), unless
\* the start() ends in its catch block because resume() or
\* createMediaStreamSource failed: that start() ends with ErrorState set and
\* ActivityFlag false.
C22_SuccessfulStartLive ==
  /\ \A c \in Calls : Accepted(c) ~> (~Current(c) \/ Failed(c) \/ ActiveLooping(c))
  /\ [][\A c \in Calls :
          (Accepted(c)' /\ ThrewOf(c)) => (error' # NoError /\ ~isActive')]_vars
  /\ StaysActiveAndTicks

\* On a component that was unmounted and mounted again, a session running on
\* the caller's analyser is active and a frame callback of it has just
\* written a loud frame and registered its successor.
C22_Witness ==
  \E c \in Calls :
    /\ lastOp = <<"tick", c, "">>
    /\ Current(c) /\ ActiveLooping(c)
    /\ mountedRef /\ lastUnmountSession # 0 /\ userProvidedAnalyserRef
    /\ <<frequencyData.data, timeDomainData.data>> = <<255, 255>>
    /\ scheduled = {[handle |-> animationFrameRef, call |-> c]}

\* The step runs updateData for call c: a frame callback the host fires, or
\* the first refresh a start() runs itself once its source is connected.
RefreshOf(c) == TickOf(c) \/ SucceedsOf(c)

\* updateData of call c finds, in this step, the analyser gone or the session
\* of c replaced.
RefreshGuarded(c) ==
  RefreshOf(c) /\ (analyserRef' = NoNode \/ currentSession[c] # sessionRef)

\* C23: a refresh that finds the analyser gone or its session no longer
\* current writes no buffer, schedules nothing and reports nothing, and no
\* refresh, of an active session or another, changes ErrorState; a frame
\* callback leaves ActivityFlag alone as well.
C23_LoopEndsSilently ==
  [][\A c \in Calls :
       /\ RefreshOf(c) => error' = error
       /\ TickOf(c) => isActive' = isActive
       /\ RefreshGuarded(c) =>
            /\ BuffersUnchanged
            /\ scheduled' \subseteq scheduled
            /\ animationFrameRef' = animationFrameRef
            /\ nextHandle' = nextHandle]_vars

\* The first refresh of a start() that was replaced while it awaited resume()
\* has returned at its guard: no callback is scheduled and no error is set.
C23_Witness ==
  \E c \in Calls :
    /\ lastOp = <<"resumeResolve", c, "active">>
    /\ Stale(c)
    /\ scheduled = {} /\ animationFrameRef = NULL /\ error = NoError

\* The pipeline is active: ActivityFlag is true and a live stream is held.
ActivePipeline == isActive /\ streamRef # NULL /\ streamState[streamRef] = "live"

\* C24 as stated: a start() on an active pipeline first stops the session it
\* finds: when the step ends with the new request pending, the stream that
\* was held has ended, its source is disconnected, no frame callback is left,
\* the context the pipeline created is closed, and ActivityFlag is false.
C24_RestartStopsFirst ==
  [][\A c \in Calls :
       (ActivePipeline /\ StartPending(c)) =>
         /\ streamState'[streamRef] = "ended"
         /\ sourceRef # NULL => sourceState'[sourceRef] = "disconnected"
         /\ scheduled' = {}
         /\ (~userProvidedAnalyserRef /\ audioContextRef # NoCtx)
              => audioContextRef \in closedContexts'
         /\ ~isActive']_vars

\* The resources a stop() leaves: no stream in streamRef, no source in
\* sourceRef, and no context of the pipeline's own that is still open.
IdleResources ==
  /\ streamRef = NULL
  /\ sourceRef = NULL
  /\ audioContextRef.kind = "own" => audioContextRef \in closedContexts

\* C25 as stated: once a start() of the current session has ended with
\* ErrorState set, the pipeline holds the resources it holds after stop() and
\* the stream granted to that start(), if any, has no live track.
C25_FailureReleases ==
  [][\A c \in Calls :
       (FailureOf(c) /\ currentSession'[c] = sessionRef' /\ error' # NoError)
         => (IdleResources' /\ streamState'[c] # "live")]_vars

\* Both requests of the StrictMode sequence have settled and both start()
\* calls have returned.
StrictSettled == pc[1] = "done" /\ pc[2] = "done"

\* What C26 says of the first start(): a grant of its request is released and
\* a rejection is not reported; and at most one callback is ever scheduled.
FirstRequestInert ==
  /\ [](Cardinality(scheduled) <= 1)
  /\ [](pc[1] = "done" => streamState[1] # "live")
  /\ [][(GrantOf(1) \/ RejectOf(1))
          => (mountedRef /\ UNCHANGED <<isActive, error, streamRef, sourceRef>>
              /\ BuffersUnchanged)]_vars

\* The second session is the one live session: ActivityFlag is true and its
\* stream is the only one with live tracks.
SecondSessionLive ==
  isActive /\ streamRef = 2 /\ LiveStreams = {2} /\ sourceState[2] = "connected"

\* C26 as stated: after mount, start(), unmount, remount, start(), however the
\* two requests settle, the first request is inert and, if the second request
\* was granted, the second session is the one live session.
C26_Original ==
  /\ FirstRequestInert
  /\ []((StrictSettled /\ streamState[2] # "none") => SecondSessionLive)

\* C26 amended: the same, where the second session is live if its request was
\* granted and its start() did not end in the catch block.
C26_StrictModeSafe ==
  /\ FirstRequestInert
  /\ []((StrictSettled /\ streamState[2] # "none" /\ error = NoError)
          => SecondSessionLive)

\* The first request was granted last, after the second session had become
\* active on the remounted component: its stream was released.
C26_Witness ==
  /\ lastOp = <<"gumGrant", 1, "discarded">>
  /\ StrictSettled /\ mountedRef /\ lastUnmountSession = 2
  /\ streamState[1] = "ended" /\ SecondSessionLive
====
